---- MODULE Spec2Model ----
(***************************************************************************)
(* squirrels-sift: the npm download-footprint CLI (src/index.js) and its   *)
(* emissions estimator (analyzer.js, two versions of which are kept in     *)
(* src/unnamed/part_000).                                                  *)
(*                                                                         *)
(* JavaScript numbers are modelled as exact non-negative decimals with 20  *)
(* fractional digits, held as arbitrary-precision naturals (little-endian  *)
(* limbs in base 10^4) because the products of the estimator exceed the    *)
(* 32-bit integers of the model checker.  Every quotient and product the   *)
(* program forms on the inputs drawn here is exact at that scale.  NaN and *)
(* undefined are separate tagged values.                                   *)
(***************************************************************************)
EXTENDS Integers, Sequences, FiniteSets, TLC

----------------------------------------------------------------------------
(* Arbitrary-precision naturals *)

Base == 10 ^ 4

\* The operators below are written without recursion over the limbs (carries
\* are looked ahead, products are summed by columns), which keeps their
\* evaluation shallow.

\* a function on 1..n as the sequence of its values
AsSeq(f) == f \o <<>>

Max0(S) == IF S = {} THEN 0 ELSE CHOOSE m \in S : \A x \in S : x <= m

\* drop the high-order zero limbs
Norm(a) == SubSeq(a, 1, Max0({i \in 1..Len(a) : a[i] # 0}))

Nat2Big(n) ==
  Norm(<<n % Base, (n \div Base) % Base, n \div (Base * Base)>>)

Limb(a, i) == IF i <= Len(a) THEN a[i] ELSE 0

\* a + b: limb i receives a carry when some lower limb sum overflows and
\* every limb sum between the two is Base - 1
BigAdd(a, b) ==
  LET n == (IF Len(a) > Len(b) THEN Len(a) ELSE Len(b)) + 1
      s == AsSeq([i \in 1..n |-> Limb(a, i) + Limb(b, i)])
      carry(i) ==
        IF \E j \in 1..(i - 1) :
             s[j] >= Base /\ \A k \in (j + 1)..(i - 1) : s[k] = Base - 1
        THEN 1 ELSE 0
  IN  Norm([i \in 1..n |-> (s[i] + carry(i)) % Base])

Zeros(m) == [i \in 1..m |-> 0]

\* a * Base^m
BigShiftLeft(a, m) == IF a = <<>> THEN <<>> ELSE Zeros(m) \o a

\* floor(a / Base^m)
BigDropLimbs(a, m) == IF Len(a) <= m THEN <<>> ELSE SubSeq(a, m + 1, Len(a))

\* a * b for numbers of at most 20 limbs: column k sums the limb products
\* a[i] * b[k + 1 - i]; a column is below Base^3 and is spread over three limbs
BigMul(a, b) ==
  LET n == Len(a) + Len(b)
      term(k, i) == IF k + 1 - i \in 1..Len(b) THEN a[i] * b[k + 1 - i] ELSE 0
      ColSum(k) ==
        LET S[i \in 0..Len(a)] == IF i = 0 THEN 0 ELSE S[i - 1] + term(k, i)
        IN  S[Len(a)]
      c == AsSeq([k \in 1..n |-> ColSum(k)])
      c0 == AsSeq([k \in 1..n |-> c[k] % Base])
      c1 == <<0>> \o [k \in 1..n |-> (c[k] \div Base) % Base]
      c2 == <<0, 0>> \o [k \in 1..n |-> c[k] \div (Base * Base)]
  IN  BigAdd(BigAdd(c0, c1), c2)

\* floor(a / d) for 0 < d <= 10^5: long division from the high limb down, R[i]
\* being the remainder carried into limb i - 1
BigDivSmall(a, d) ==
  LET n == Len(a)
      R[i \in 1..(n + 1)] ==
        IF i = n + 1 THEN 0 ELSE (R[i + 1] * Base + a[i]) % d
  IN  Norm([i \in 1..n |-> (R[i + 1] * Base + a[i]) \div d])

----------------------------------------------------------------------------
(* JavaScript numbers: [k |-> "num", v |-> numerator over 10^20], NaN,     *)
(* undefined                                                               *)

\* the fractional limbs a number is held with: 5 limbs are 20 decimal digits
FracLimbs == 5

Num(v) == [k |-> "num", v |-> v]
NaN == [k |-> "nan", v |-> <<>>]
Undefined == [k |-> "undef", v |-> <<>>]

IsNum(x) == x.k = "num"

\* the integer n
FromInt(n) == Num(BigShiftLeft(Nat2Big(n), FracLimbs))

Zero == FromInt(0)

\* the decimal n / d, d a power of ten up to 10^5
Dec(n, d) == Num(BigDivSmall(BigShiftLeft(Nat2Big(n), FracLimbs), d))

\* x + y
NumAdd(x, y) ==
  IF IsNum(x) /\ IsNum(y) THEN Num(BigAdd(x.v, y.v)) ELSE NaN

\* x * y
NumMul(x, y) ==
  IF IsNum(x) /\ IsNum(y)
  THEN Num(BigDropLimbs(BigMul(x.v, y.v), FracLimbs))
  ELSE NaN

\* x / d for a positive integer literal d up to 10^5
NumDivInt(x, d) == IF IsNum(x) THEN Num(BigDivSmall(x.v, d)) ELSE NaN

Half == Dec(5, 10)
Hundred == FromInt(100)
Million == FromInt(1000000)

\* Math.round on a non-negative number: floor(x + 1/2)
MathRound(x) ==
  IF IsNum(x)
  THEN Num(BigShiftLeft(BigDropLimbs(BigAdd(x.v, Half.v), FracLimbs), FracLimbs))
  ELSE NaN

\* Math.floor
MathFloor(x) ==
  IF IsNum(x)
  THEN Num(BigShiftLeft(BigDropLimbs(x.v, FracLimbs), FracLimbs))
  ELSE NaN

\* Number.isNaN
NumberIsNaN(x) == x.k = "nan"

\* Number.EPSILON = 2^-52 = 1 / (2^13)^4 = 2.2204...e-16
EPSILON ==
  LET d == 2 ^ 13
  IN  Num(BigDivSmall(BigDivSmall(BigDivSmall(BigDivSmall(FromInt(1).v, d), d), d), d))

----------------------------------------------------------------------------
(* analyzer.js.  Two versions of the file are in the source; they differ   *)
(* only in _contributions.dataCenter.  analyzer = 1 is the version at      *)
(* part_000:97-154, analyzer = 2 the one at part_000:155-239.              *)

AnalyzerVersions == {1, 2}

\* const to2fR = float => Math.round((float + Number.EPSILON) * 100) / 100
to2fR(float) ==
  NumDivInt(MathRound(NumMul(NumAdd(float, EPSILON), Hundred)), 100)

\* const to6fR = float => Math.round((float + Number.EPSILON) * 1000000) / 1000000
to6fR(float) ==
  NumDivInt(NumDivInt(
    MathRound(NumMul(NumAdd(float, EPSILON), Million)), 1000), 1000)

KWH_PER_GB == Dec(81, 100)

\* the key order of the table, which is the order of the for-in loop
Parts == <<"dataCenter", "network", "device", "production">>

_gridIntensities ==
  [dataCenter |-> FromInt(50), network |-> Dec(43726, 100),
   device |-> Dec(43726, 100), production |-> Dec(43726, 100)]

_contributions(version) ==
  [dataCenter |-> IF version = 1 THEN 15 ELSE 14,
   network |-> 14, device |-> 53, production |-> 19]

RECURSIVE TotalCo2PerGbFrom(_, _, _)
\* the for-in loop of calculateCO2Emissions, from the i-th part on
TotalCo2PerGbFrom(version, i, totalCo2PerGb) ==
  IF i > Len(Parts) THEN totalCo2PerGb
  ELSE LET part == Parts[i]
           intensity == _gridIntensities[part]
           contribution == NumDivInt(FromInt(_contributions(version)[part]), 100)
       IN  TotalCo2PerGbFrom(version, i + 1,
                             NumAdd(totalCo2PerGb, NumMul(intensity, contribution)))

\* what the loop yields with the default tables (no options are ever passed),
\* one entry per version of analyzer.js
DefaultTotalCo2PerGb ==
  <<TotalCo2PerGbFrom(1, 1, Zero), TotalCo2PerGbFrom(2, 1, Zero)>>

\* a slip: the weekly total is not scaled by the number of downloads
calculateCO2Emissions_noDownloads(sizeKb, downloads, version) ==
  LET sizeGb == NumDivInt(NumDivInt(sizeKb, 1000), 1000)
      totalCo2PerGb == DefaultTotalCo2PerGb[version]
      co2EmissionsPerDownloadG == NumMul(sizeGb, totalCo2PerGb)
  IN  [totalCo2EmissionsWeekKg |-> NumDivInt(co2EmissionsPerDownloadG, 1000),
       consumedkWh |-> NumMul(sizeGb, KWH_PER_GB)]

calculateCO2Emissions(sizeKb, downloads, version) ==
  LET sizeGb == NumDivInt(NumDivInt(sizeKb, 1000), 1000)
      totalCo2PerGb == DefaultTotalCo2PerGb[version]
      co2EmissionsPerDownloadG == NumMul(sizeGb, totalCo2PerGb)
      totalCo2EmissionsWeekG == NumMul(co2EmissionsPerDownloadG, downloads)
      totalCo2EmissionsWeekKg == NumDivInt(totalCo2EmissionsWeekG, 1000)
  IN  [totalCo2EmissionsWeekKg |-> totalCo2EmissionsWeekKg,
       consumedkWh |-> NumMul(sizeGb, KWH_PER_GB)]

\* a slip: tonnes derived from the already rounded kilograms
emissionPerWeek_fromRoundedKg(sizeKb, downloadsLastWeek, version) ==
  LET emissions == calculateCO2Emissions(sizeKb, downloadsLastWeek, version)
  IN  [type |-> "report",
       consumedkWh |-> to6fR(NumMul(emissions.consumedkWh, downloadsLastWeek)),
       kg |-> to6fR(emissions.totalCo2EmissionsWeekKg),
       t |-> to2fR(NumDivInt(to6fR(emissions.totalCo2EmissionsWeekKg), 1000))]

\* a slip: kilograms rounded to two decimals instead of six
emissionPerWeek_kg2(sizeKb, downloadsLastWeek, version) ==
  LET emissions == calculateCO2Emissions(sizeKb, downloadsLastWeek, version)
  IN  [type |-> "report",
       consumedkWh |-> to6fR(NumMul(emissions.consumedkWh, downloadsLastWeek)),
       kg |-> to2fR(emissions.totalCo2EmissionsWeekKg),
       t |-> to2fR(NumDivInt(emissions.totalCo2EmissionsWeekKg, 1000))]

emissionPerWeek(sizeKb, downloadsLastWeek, version) ==
  LET emissions == calculateCO2Emissions(sizeKb, downloadsLastWeek, version)
  IN  [type |-> "report",
       consumedkWh |-> to6fR(NumMul(emissions.consumedkWh, downloadsLastWeek)),
       kg |-> to6fR(emissions.totalCo2EmissionsWeekKg),
       t |-> to2fR(NumDivInt(emissions.totalCo2EmissionsWeekKg, 1000))]

----------------------------------------------------------------------------
(* index.js: the state of one run of the CLI *)

VARIABLES
  mode,                       \* "npm" (npmHandler) or "repo" (repohandler)
  analyzer,                   \* which version of analyzer.js is required
  npmPackageVersionListings,  \* the argument of npmPackagesHandler
  ignoreDownloads,            \* the argument of npmPackagesHandler
  statPromise,                \* per package: npm.stat(...)
  detailsPromise,             \* per package: fetch(...).then(res => res.json())
  promises,                   \* per package: Promise.allSettled(...).then(...)
  firstCompleted,             \* history: the package whose callback ran first
  results,                    \* the promise npmPackagesHandler returns
  printed,                    \* what resultHandler gave to console.dir
  written,                    \* what resultHandler gave to writeFile
  estArgs,                    \* a direct call of the estimator: its arguments,
  estEmissions,               \*   what calculateCO2Emissions returned,
  estReport                   \*   what emissionPerWeek returned

cliVars == <<mode, npmPackageVersionListings, ignoreDownloads, statPromise,
             detailsPromise, promises, firstCompleted, results, printed,
             written>>
estVars == <<estArgs, estEmissions, estReport>>
vars == <<analyzer, cliVars, estVars>>

\* the most packages one run is given
MaxPkgs == 2

\* the names on the command line or in package.json, by position
PackageNames == <<"express", "react", "lodash", "debug">>
\* the version ranges package.json gives them
PackageVersions == <<"4.17.1", "17.0.2", "^4.17.21", "~4.3.4">>

\* body.downloads of a fulfilled download-stat lookup
DownloadCounts == {1000, 20000}
\* size (bytes) of a fulfilled size lookup
PackageSizes == {100000000}

NoValue == [k |-> "none", num |-> Undefined]
Pending == [status |-> "pending", value |-> NoValue, reason |-> ""]
Fulfilled(num) ==
  [status |-> "fulfilled", value |-> [k |-> "obj", num |-> num], reason |-> ""]
Rejected(reason) == [status |-> "rejected", value |-> NoValue, reason |-> reason]

\* how npm.stat can settle: { body: { downloads } } or a rejection
StatOutcomes ==
  {Fulfilled(FromInt(d)) : d \in DownloadCounts} \cup {Rejected("stat failed")}

\* how the size request can settle: { size }, an error document without a
\* size (a 4xx answer still parses as JSON), or a rejection
DetailsOutcomes ==
  {Fulfilled(FromInt(b)) : b \in PackageSizes}
    \cup {Fulfilled(Undefined), Rejected("size failed")}

Null == [k |-> "null", num |-> Undefined]
NoError == [k |-> "absent", reason |-> ""]
NoReport == [type |-> "absent", consumedkWh |-> Undefined, kg |-> Undefined,
             t |-> Undefined]
NoResult == [name |-> "", version |-> "", stat |-> NoValue, details |-> NoValue,
             emissionsPerWeek |-> NoReport, error |-> NoError]

\* npmList.map(_ => ({ name: _ })) and Object.entries(dependencies).map(...)
Listings(m, n) ==
  [i \in 1..n |->
     [name |-> PackageNames[i],
      version |-> IF m = "repo" THEN PackageVersions[i] ELSE "undefined"]]

\* a slip: result.stat.body.downloads without the optional chaining, which
\* throws on the null stat of a rejected lookup
Throws_noOptionalChaining(statResult, detailsResult, ignoreDl) ==
  /\ detailsResult.status = "fulfilled"
  /\ \/ detailsResult.value.k # "obj"
     \/ ~ignoreDl /\ statResult.status # "fulfilled"

\* whether the callback throws: result.details.size is a property access on
\* the fulfilled value, a TypeError when that is null or undefined;
\* result.stat?.body.downloads does not throw on a null stat
Throws(statResult, detailsResult, ignoreDl) ==
  detailsResult.status = "fulfilled" /\ detailsResult.value.k # "obj"

\* result.stat?.body.downloads
StatDownloads(stat) == IF stat.k = "obj" THEN stat.num ELSE Undefined

\* a slip: the ignoreDownloads flag is not honoured
allSettledThen_useDownloads(listing, statResult, detailsResult, ignoreDl, version) ==
  LET stat == IF statResult.status = "fulfilled" THEN statResult.value ELSE Null
      error1 == IF statResult.status = "fulfilled" THEN NoError
                ELSE [k |-> "set", reason |-> statResult.reason]
      ok == detailsResult.status = "fulfilled"
  IN  [name |-> listing.name,
       version |-> IF listing.version = "undefined" THEN "latest" ELSE listing.version,
       stat |-> stat,
       details |-> IF ok THEN detailsResult.value ELSE Null,
       emissionsPerWeek |->
         IF ok
         THEN emissionPerWeek(NumDivInt(detailsResult.value.num, 1000),
                              StatDownloads(stat), version)
         ELSE NoReport,
       error |-> IF ok THEN error1
                 ELSE [k |-> "set", reason |-> detailsResult.reason]]

\* a slip: a rejected download-stat lookup leaves no error on the record
allSettledThen_statErrorLost(listing, statResult, detailsResult, ignoreDl, version) ==
  LET stat == IF statResult.status = "fulfilled" THEN statResult.value ELSE Null
      ok == detailsResult.status = "fulfilled"
  IN  [name |-> listing.name,
       version |-> IF listing.version = "undefined" THEN "latest" ELSE listing.version,
       stat |-> stat,
       details |-> IF ok THEN detailsResult.value ELSE Null,
       emissionsPerWeek |->
         IF ok
         THEN emissionPerWeek(NumDivInt(detailsResult.value.num, 1000),
                              IF ignoreDl THEN FromInt(1) ELSE StatDownloads(stat),
                              version)
         ELSE NoReport,
       error |-> IF ok THEN NoError
                 ELSE [k |-> "set", reason |-> detailsResult.reason]]

\* the callback given to Promise.allSettled(...).then: the record of one package
allSettledThen(listing, statResult, detailsResult, ignoreDl, version) ==
  LET stat == IF statResult.status = "fulfilled" THEN statResult.value ELSE Null
      error1 == IF statResult.status = "fulfilled" THEN NoError
                ELSE [k |-> "set", reason |-> statResult.reason]
      ok == detailsResult.status = "fulfilled"
  IN  [name |-> listing.name,
       version |-> IF listing.version = "undefined" THEN "latest" ELSE listing.version,
       stat |-> stat,
       details |-> IF ok THEN detailsResult.value ELSE Null,
       emissionsPerWeek |->
         IF ok
         THEN emissionPerWeek(NumDivInt(detailsResult.value.num, 1000),
                              IF ignoreDl THEN FromInt(1) ELSE StatDownloads(stat),
                              version)
         ELSE NoReport,
       error |-> IF ok THEN error1
                 ELSE [k |-> "set", reason |-> detailsResult.reason]]

\* a slip: the records gathered back to front
PromiseAllValues_reversed(ps) ==
  [i \in 1..Len(ps) |-> ps[Len(ps) + 1 - i].value]

\* the value Promise.all fulfils with: the values of its promises, by index
PromiseAllValues(ps) == [i \in 1..Len(ps) |-> ps[i].value]

----------------------------------------------------------------------------
(* resultHandler *)

NoOutput ==
  [kind |-> "none", aggregatedEmissions_kg |-> Zero, aggregated_kWh |-> Zero,
   flights_LDN_JFK |-> Zero, timespan |-> "", details |-> <<>>, list |-> <<>>]

\* the initial value given to reduce
InitialAcc ==
  [kind |-> "condensed", aggregatedEmissions_kg |-> Zero, aggregated_kWh |-> Zero,
   flights_LDN_JFK |-> Zero, timespan |-> "baseTime", details |-> <<>>,
   list |-> <<>>]

\* currentPackage?.emissionsPerWeek?.kg ?? 0 (and the same for consumedkWh)
OrZero(report, x) == IF report.type = "absent" THEN Zero ELSE x

\* a slip: the NaN of a package without a download count or size is kept
reducer_keepNaN(acc, currentPackage, idx, len) ==
  LET isLast == idx = len
      emissions_kg ==
        OrZero(currentPackage.emissionsPerWeek, currentPackage.emissionsPerWeek.kg)
      consumption_kWh ==
        OrZero(currentPackage.emissionsPerWeek,
               currentPackage.emissionsPerWeek.consumedkWh)
      obj == [name |-> currentPackage.name, version |-> currentPackage.version,
              emissions_kg |-> emissions_kg, consumption_kWh |-> consumption_kWh]
      kg == NumAdd(acc.aggregatedEmissions_kg, obj.emissions_kg)
  IN  [acc EXCEPT !.aggregatedEmissions_kg = kg,
                  !.aggregated_kWh = NumAdd(@, obj.consumption_kWh),
                  !.flights_LDN_JFK =
                     IF isLast THEN MathFloor(NumDivInt(kg, 590)) ELSE @,
                  !.details = Append(@, obj)]

\* a slip: the flights taken from the total before the last package is added
reducer_flightsEarly(acc, currentPackage, idx, len) ==
  LET isLast == idx = len
      emissions_kg ==
        OrZero(currentPackage.emissionsPerWeek, currentPackage.emissionsPerWeek.kg)
      consumption_kWh ==
        OrZero(currentPackage.emissionsPerWeek,
               currentPackage.emissionsPerWeek.consumedkWh)
      obj == [name |-> currentPackage.name, version |-> currentPackage.version,
              emissions_kg |->
                IF NumberIsNaN(emissions_kg) THEN Zero ELSE emissions_kg,
              consumption_kWh |->
                IF NumberIsNaN(consumption_kWh) THEN Zero ELSE consumption_kWh]
  IN  [acc EXCEPT !.aggregatedEmissions_kg = NumAdd(@, obj.emissions_kg),
                  !.aggregated_kWh = NumAdd(@, obj.consumption_kWh),
                  !.flights_LDN_JFK =
                     IF isLast
                     THEN MathFloor(NumDivInt(acc.aggregatedEmissions_kg, 590))
                     ELSE @,
                  !.details = Append(@, obj)]

\* the callback given to result.reduce; idx counts from 1 here
reducer(acc, currentPackage, idx, len) ==
  LET isLast == idx = len
      emissions_kg ==
        OrZero(currentPackage.emissionsPerWeek, currentPackage.emissionsPerWeek.kg)
      consumption_kWh ==
        OrZero(currentPackage.emissionsPerWeek,
               currentPackage.emissionsPerWeek.consumedkWh)
      obj == [name |-> currentPackage.name, version |-> currentPackage.version,
              emissions_kg |->
                IF NumberIsNaN(emissions_kg) THEN Zero ELSE emissions_kg,
              consumption_kWh |->
                IF NumberIsNaN(consumption_kWh) THEN Zero ELSE consumption_kWh]
      kg == NumAdd(acc.aggregatedEmissions_kg, obj.emissions_kg)
  IN  [acc EXCEPT !.aggregatedEmissions_kg = kg,
                  !.aggregated_kWh = NumAdd(@, obj.consumption_kWh),
                  !.flights_LDN_JFK =
                     IF isLast THEN MathFloor(NumDivInt(kg, 590)) ELSE @,
                  !.details = Append(@, obj)]

RECURSIVE Reduce(_, _, _)
\* Array.prototype.reduce from the idx-th element on
Reduce(result, idx, acc) ==
  IF idx > Len(result) THEN acc
  ELSE Reduce(result, idx + 1, reducer(acc, result[idx], idx, Len(result)))

\* const _result = options.condensed ? result.reduce(...) : result
CondensedOrNot(condensed, result) ==
  IF condensed THEN Reduce(result, 1, InitialAcc)
  ELSE [NoOutput EXCEPT !.kind = "list", !.list = result]

\* JSON.stringify of a number: NaN is written as null
JsonNull == [k |-> "null", v |-> <<>>]
JsonNumber(x) == IF x.k = "nan" THEN JsonNull ELSE x

JsonReport(r) ==
  [r EXCEPT !.consumedkWh = JsonNumber(@), !.kg = JsonNumber(@), !.t = JsonNumber(@)]

\* JSON.stringify(_result, null, 2)
Stringify(output) ==
  [output EXCEPT
     !.aggregatedEmissions_kg = JsonNumber(@),
     !.aggregated_kWh = JsonNumber(@),
     !.flights_LDN_JFK = JsonNumber(@),
     !.details = [i \in 1..Len(@) |->
                   [@[i] EXCEPT !.emissions_kg = JsonNumber(@),
                                !.consumption_kWh = JsonNumber(@)]],
     !.list = [i \in 1..Len(@) |->
                [@[i] EXCEPT !.emissionsPerWeek = JsonReport(@)]]]

----------------------------------------------------------------------------
(* The run of the CLI *)

NoResults == [status |-> "pending", value |-> <<>>]
NoPromise == [status |-> "pending", value |-> NoResult]

NoArgs == [sizeKb |-> Undefined, downloads |-> Undefined]
NoEmissions == [called |-> FALSE, totalCo2EmissionsWeekKg |-> Undefined,
                consumedkWh |-> Undefined]

\* cli(): options.npm !== '' ? npmHandler(options) : repohandler(options).  A
\* non-empty --npm list has at least one entry; package.json may have none.
Init ==
  /\ mode \in {"npm", "repo"}
  /\ analyzer \in AnalyzerVersions
  /\ \E n \in 0..MaxPkgs :
       /\ mode = "npm" => n >= 1
       /\ npmPackageVersionListings = Listings(mode, n)
       /\ statPromise = [i \in 1..n |-> Pending]
       /\ detailsPromise = [i \in 1..n |-> Pending]
       /\ promises = [i \in 1..n |-> NoPromise]
  /\ ignoreDownloads = (mode = "repo")
  /\ firstCompleted = 0
  /\ results = NoResults
  /\ printed = NoOutput
  /\ written = NoOutput
  /\ estArgs = NoArgs
  /\ estEmissions = NoEmissions
  /\ estReport = NoReport

Pkgs == 1..Len(npmPackageVersionListings)

\* npm.stat(name, timespan.start, timespan.end) settles
StatSettles(i) ==
  /\ statPromise[i].status = "pending"
  /\ \E outcome \in StatOutcomes :
       statPromise' = [statPromise EXCEPT ![i] = outcome]
  /\ UNCHANGED <<analyzer, mode, npmPackageVersionListings, ignoreDownloads,
                 detailsPromise, promises, firstCompleted, results, printed,
                 written, estVars>>

\* fetch(...).then(res => res.json()) settles
DetailsSettles(i) ==
  /\ detailsPromise[i].status = "pending"
  /\ \E outcome \in DetailsOutcomes :
       detailsPromise' = [detailsPromise EXCEPT ![i] = outcome]
  /\ UNCHANGED <<analyzer, mode, npmPackageVersionListings, ignoreDownloads,
                 statPromise, promises, firstCompleted, results, printed,
                 written, estVars>>

\* Promise.allSettled([statPromise, detailsPromise]).then(callback) for package i
AllSettledThen(i) ==
  /\ promises[i].status = "pending"
  /\ statPromise[i].status # "pending"
  /\ detailsPromise[i].status # "pending"
  /\ promises' =
       [promises EXCEPT ![i] =
          IF Throws(statPromise[i], detailsPromise[i], ignoreDownloads)
          THEN [status |-> "rejected", value |-> NoResult]
          ELSE [status |-> "fulfilled",
                value |-> allSettledThen(npmPackageVersionListings[i],
                                         statPromise[i], detailsPromise[i],
                                         ignoreDownloads, analyzer)]]
  /\ firstCompleted' = IF firstCompleted = 0 THEN i ELSE firstCompleted
  /\ UNCHANGED <<analyzer, mode, npmPackageVersionListings, ignoreDownloads,
                 statPromise, detailsPromise, results, printed, written,
                 estVars>>

\* const results = await Promise.all(promises); return results
PromiseAll ==
  /\ results.status = "pending"
  /\ IF \E i \in Pkgs : promises[i].status = "rejected"
     THEN results' = [status |-> "rejected", value |-> <<>>]
     ELSE /\ \A i \in Pkgs : promises[i].status = "fulfilled"
          /\ results' = [status |-> "fulfilled",
                         value |-> PromiseAllValues(promises)]
  /\ UNCHANGED <<analyzer, mode, npmPackageVersionListings, ignoreDownloads,
                 statPromise, detailsPromise, promises, firstCompleted,
                 printed, written, estVars>>

\* await resultHandler(options, result) with options.condensed and options.out
ResultHandler(condensed, out) ==
  /\ results.status = "fulfilled"
  /\ printed.kind = "none"
  /\ LET _result == CondensedOrNot(condensed, results.value)
     IN  /\ printed' = _result
         /\ written' = IF out THEN Stringify(_result) ELSE NoOutput
  /\ UNCHANGED <<analyzer, mode, npmPackageVersionListings, ignoreDownloads,
                 statPromise, detailsPromise, promises, firstCompleted,
                 results, estVars>>

Next ==
  \/ \E i \in Pkgs : StatSettles(i)
  \/ \E i \in Pkgs : DetailsSettles(i)
  \/ \E i \in Pkgs : AllSettledThen(i)
  \/ PromiseAll
  \/ \E condensed \in BOOLEAN, out \in BOOLEAN : ResultHandler(condensed, out)

Spec == Init /\ [][Next]_vars

----------------------------------------------------------------------------
(* The estimator called on its own: emissionPerWeek is the module's export *)

\* the inputs drawn: sizes up to MaxSizeSteps quarter-megabytes and counts up
\* to MaxDownloads, next to the sizes and the count the claims single out
MaxSizeSteps == 3
MaxDownloads == 3

EstSizeBytes ==
  {0, 100000000, 13053344, 13036327} \cup {k * 250000 : k \in 1..MaxSizeSteps}
EstDownloads == (0..MaxDownloads) \cup {1000}

\* size in kB as index.js forms it: bytes / 1000
EstSizesKb == {NumDivInt(FromInt(b), 1000) : b \in EstSizeBytes}

InitEst ==
  /\ analyzer \in AnalyzerVersions
  /\ estArgs \in [sizeKb : EstSizesKb, downloads : {FromInt(d) : d \in EstDownloads}]
  /\ estEmissions = NoEmissions
  /\ estReport = NoReport
  /\ mode = "none"
  /\ npmPackageVersionListings = <<>>
  /\ ignoreDownloads = FALSE
  /\ statPromise = <<>>
  /\ detailsPromise = <<>>
  /\ promises = <<>>
  /\ firstCompleted = 0
  /\ results = NoResults
  /\ printed = NoOutput
  /\ written = NoOutput

\* calculateCO2Emissions(sizeKb, downloads) with the default tables
CallCalculateCO2Emissions ==
  /\ ~estEmissions.called
  /\ estEmissions' =
       LET e == calculateCO2Emissions(estArgs.sizeKb, estArgs.downloads, analyzer)
       IN  [called |-> TRUE,
            totalCo2EmissionsWeekKg |-> e.totalCo2EmissionsWeekKg,
            consumedkWh |-> e.consumedkWh]
  /\ UNCHANGED <<analyzer, cliVars, estArgs, estReport>>

\* emissionPerWeek(sizeKb, downloadsLastWeek)
CallEmissionPerWeek ==
  /\ estReport.type = "absent"
  /\ estReport' = emissionPerWeek(estArgs.sizeKb, estArgs.downloads, analyzer)
  /\ UNCHANGED <<analyzer, cliVars, estArgs, estEmissions>>

NextEst == CallCalculateCO2Emissions \/ CallEmissionPerWeek

SpecEst == InitEst /\ [][NextEst]_vars

----------------------------------------------------------------------------
(* Properties *)

Record(i) == promises[i].value
Ran(i) == promises[i].status = "fulfilled"
StatFailed(i) == statPromise[i].status = "rejected"
DetailsFailed(i) == detailsPromise[i].status = "rejected"

\* emissionPerWeek(size / 1000, downloads) for every size and count a lookup
\* can yield
ExpectedReport ==
  [version \in AnalyzerVersions,
   size \in {o.value.num : o \in DetailsOutcomes},
   downloads \in {o.value.num : o \in StatOutcomes} \cup {FromInt(1)} |->
     emissionPerWeek(NumDivInt(size, 1000), downloads, version)]

\* what the record of package i must carry for its two lookups' outcomes
MarksFailures(r, i) ==
  /\ StatFailed(i) => r.stat = Null /\ r.error.k = "set"
  /\ DetailsFailed(i) =>
       /\ r.details = Null
       /\ r.error = [k |-> "set", reason |-> detailsPromise[i].reason]
  /\ StatFailed(i) /\ ~DetailsFailed(i) =>
       r.error = [k |-> "set", reason |-> statPromise[i].reason]
  /\ ~StatFailed(i) => r.stat = statPromise[i].value
  /\ ~DetailsFailed(i) => r.details = detailsPromise[i].value
  /\ ~StatFailed(i) /\ ~DetailsFailed(i) =>
       /\ r.error = NoError
       /\ r.emissionsPerWeek =
            ExpectedReport[analyzer, detailsPromise[i].value.num,
                           IF ignoreDownloads THEN FromInt(1)
                           ELSE statPromise[i].value.num]

\* C1: whatever the lookups' outcomes, no per-package promise and no batch is
\* rejected; the record of a package carries null for each failed lookup and
\* an error holding the failure reason (the size lookup's when both failed);
\* the record of a package whose lookups succeeded carries its data, its
\* emissions and no error, whatever happened to the other packages.
C1_FailuresBecomeErrorMarkers ==
  /\ results.status # "rejected"
  /\ \A i \in Pkgs :
       /\ promises[i].status # "rejected"
       /\ Ran(i) => MarksFailures(Record(i), i)
  /\ results.status = "fulfilled" =>
       \A i \in Pkgs : results.value[i] = Record(i)

\* a batch that resolved although one package lost both lookups, next to a
\* package that lost none
C1_Witness ==
  /\ results.status = "fulfilled"
  /\ \E i, j \in Pkgs :
       /\ StatFailed(i) /\ DetailsFailed(i)
       /\ results.value[i].error.k = "set"
       /\ statPromise[j].status = "fulfilled"
       /\ detailsPromise[j].status = "fulfilled"
       /\ results.value[j].emissionsPerWeek.kg.k = "num"

\* C2: the array npmPackagesHandler returns has one record per input package,
\* and the record at index i has the name and the version (or 'latest', its
\* default) of the input at index i, in whatever order the lookups settled.
C2_InputOrderPreserved ==
  results.status = "fulfilled" =>
    /\ Len(results.value) = Len(npmPackageVersionListings)
    /\ \A i \in Pkgs :
         /\ results.value[i].name = npmPackageVersionListings[i].name
         /\ results.value[i].version =
              IF npmPackageVersionListings[i].version = "undefined"
              THEN "latest"
              ELSE npmPackageVersionListings[i].version

\* the array returned after the second package's record was built first
C2_Witness ==
  /\ results.status = "fulfilled"
  /\ Len(results.value) >= 2
  /\ firstCompleted = 2

EstSizeGb == NumDivInt(NumDivInt(estArgs.sizeKb, 1000), 1000)

\* C3 as stated: with downloadCount = 0 the estimate has zero emissions and
\* zero consumedkWh.
C3_ZeroDownloadsZeroFootprint ==
  estEmissions.called /\ estArgs.downloads = Zero =>
    /\ estEmissions.totalCo2EmissionsWeekKg = Zero
    /\ estEmissions.consumedkWh = Zero

\* C3 amended: with downloadCount = 0 the estimate has zero emissions, and
\* its consumedkWh is the energy of one transfer, sizeKb / 1_000_000 * 0.81,
\* which is zero only for sizeKb = 0.
C3_ZeroDownloadsZeroEmissions ==
  estEmissions.called /\ estArgs.downloads = Zero =>
    /\ estEmissions.totalCo2EmissionsWeekKg = Zero
    /\ estEmissions.consumedkWh = NumMul(EstSizeGb, KWH_PER_GB)
    /\ estEmissions.consumedkWh = Zero <=> estArgs.sizeKb = Zero

\* an estimate for no downloads of a package that has a size
C3_Witness ==
  /\ estEmissions.called
  /\ estArgs.downloads = Zero
  /\ estArgs.sizeKb # Zero
  /\ estEmissions.consumedkWh # Zero

\* C4 as stated: t is round2 of the report's own (six-decimal) kg over 1000.
C4_TonnesFromRoundedKg ==
  estReport.type = "report" =>
    estReport.t = to2fR(NumDivInt(estReport.kg, 1000))

\* C4 amended: t is round2 of the unrounded totalCo2EmissionsWeekKg over 1000.
C4_TonnesFromUnroundedKg ==
  estReport.type = "report" /\ estEmissions.called =>
    estReport.t = to2fR(NumDivInt(estEmissions.totalCo2EmissionsWeekKg, 1000))

\* a report whose kg rounds up to 5.000000 while its t is still 0
C4_Witness ==
  /\ estReport.type = "report"
  /\ estEmissions.called
  /\ estReport.kg = FromInt(5)
  /\ estEmissions.totalCo2EmissionsWeekKg # FromInt(5)
  /\ estReport.t = Zero

IsSpecScenario ==
  /\ estArgs.sizeKb = FromInt(100000)
  /\ estArgs.downloads = FromInt(1000)

\* C6 as stated: for sizeKb = 100000 and 1000 downloads the report is
\* consumedkWh = 81, kg = 38.355, t = 0.04.
C6_ScenarioAsStated ==
  estReport.type = "report" /\ IsSpecScenario =>
    /\ estReport.consumedkWh = FromInt(81)
    /\ estReport.kg = Dec(38355, 1000)
    /\ estReport.t = Dec(4, 100)

\* C6 amended: for sizeKb = 100000 and 1000 downloads the report is
\* consumedkWh = 81, t = 0.04 and kg = 38.35436 with the table whose
\* dataCenter share is 15 (383.5436 g/GB), kg = 38.30436 with the table whose
\* dataCenter share is 14 (383.0436 g/GB).
C6_ScenarioAsComputed ==
  estReport.type = "report" /\ IsSpecScenario =>
    /\ estReport.consumedkWh = FromInt(81)
    /\ estReport.t = Dec(4, 100)
    /\ estReport.kg = IF _contributions(analyzer).dataCenter = 15
                      THEN Dec(3835436, 100000)
                      ELSE Dec(3830436, 100000)
    /\ TotalCo2PerGbFrom(analyzer, 1, Zero) =
         IF _contributions(analyzer).dataCenter = 15
         THEN Dec(3835436, 10000)
         ELSE Dec(3830436, 10000)

\* the report of the scenario
C6_Witness == estReport.type = "report" /\ IsSpecScenario

RECURSIVE SumOver(_, _)
SumOver(table, keys) ==
  IF keys = <<>> THEN 0 ELSE table[Head(keys)] + SumOver(table, Tail(keys))

\* C7: the percentages of the default contribution table sum to 100, in the
\* version of the table the run uses, whichever it is.
C7_ContributionsSumTo100 == SumOver(_contributions(analyzer), Parts) = 100

ReportHasNaN(r) ==
  NumberIsNaN(r.consumedkWh) \/ NumberIsNaN(r.kg) \/ NumberIsNaN(r.t)

\* whether what resultHandler prints or writes holds a NaN somewhere
OutputHasNaN(output) ==
  \/ NumberIsNaN(output.aggregatedEmissions_kg)
  \/ NumberIsNaN(output.aggregated_kWh)
  \/ NumberIsNaN(output.flights_LDN_JFK)
  \/ \E i \in 1..Len(output.details) :
       \/ NumberIsNaN(output.details[i].emissions_kg)
       \/ NumberIsNaN(output.details[i].consumption_kWh)
  \/ \E i \in 1..Len(output.list) : ReportHasNaN(output.list[i].emissionsPerWeek)

\* C5 as stated: nothing resultHandler prints or writes, condensed or not,
\* holds a NaN.
C5_NoNaNInAnyOutput == ~OutputHasNaN(printed) /\ ~OutputHasNaN(written)

\* C5 amended: in condensed mode nothing resultHandler prints or writes holds
\* a NaN: a package whose emissionsPerWeek is NaN is listed and summed with
\* 0.  (Without --condensed the records are printed as they are.)
C5_NoNaNInCondensedOutput ==
  printed.kind = "condensed" =>
    /\ ~OutputHasNaN(printed)
    /\ ~OutputHasNaN(written)
    /\ \A i \in 1..Len(results.value) :
         ReportHasNaN(results.value[i].emissionsPerWeek) =>
           /\ printed.details[i].emissions_kg = Zero
           /\ printed.details[i].consumption_kWh = Zero

\* a condensed report, also written, of a batch with a NaN package
C5_Witness ==
  /\ printed.kind = "condensed"
  /\ written.kind = "condensed"
  /\ \E i \in 1..Len(results.value) :
       /\ NumberIsNaN(results.value[i].emissionsPerWeek.kg)
       /\ printed.details[i].emissions_kg = Zero

\* C8: with ignoreDownloads the emissionsPerWeek of a record is determined by
\* the package's size lookup alone: it is emissionPerWeek(size / 1000, 1) when
\* that lookup fulfilled and absent when it rejected, whatever the download-stat
\* lookup did.
C8_EmissionsIgnoreDownloads ==
  ignoreDownloads =>
    \A i \in Pkgs :
      Ran(i) =>
        Record(i).emissionsPerWeek =
          IF DetailsFailed(i) THEN NoReport
          ELSE ExpectedReport[analyzer, detailsPromise[i].value.num, FromInt(1)]

\* two packages of one --repo run with the same size, one with a download
\* count and one whose download-stat lookup failed, and the same emissions
C8_Witness ==
  /\ ignoreDownloads
  /\ \E i, j \in Pkgs :
       /\ Ran(i) /\ Ran(j)
       /\ StatFailed(i) /\ statPromise[j].status = "fulfilled"
       /\ detailsPromise[i] = detailsPromise[j]
       /\ detailsPromise[i].status = "fulfilled"
       /\ Record(i).emissionsPerWeek.kg.k = "num"
       /\ Record(i).emissionsPerWeek.kg # Zero
       /\ Record(i).emissionsPerWeek = Record(j).emissionsPerWeek

RECURSIVE SumKg(_)
SumKg(details) ==
  IF details = <<>> THEN Zero
  ELSE NumAdd(SumKg(SubSeq(details, 1, Len(details) - 1)),
              details[Len(details)].emissions_kg)

RECURSIVE SumKWh(_)
SumKWh(details) ==
  IF details = <<>> THEN Zero
  ELSE NumAdd(SumKWh(SubSeq(details, 1, Len(details) - 1)),
              details[Len(details)].consumption_kWh)

\* C9: a condensed report has one details entry per record, in input order;
\* its aggregatedEmissions_kg and aggregated_kWh are the sums of the entries'
\* emissions_kg and consumption_kWh; its flights_LDN_JFK is
\* floor(aggregatedEmissions_kg / 590) of the final total.  The empty list
\* gives zeros and no entries.
C9_CondensedTotals ==
  printed.kind = "condensed" =>
    /\ Len(printed.details) = Len(results.value)
    /\ \A i \in 1..Len(results.value) :
         /\ printed.details[i].name = results.value[i].name
         /\ printed.details[i].version = results.value[i].version
    /\ printed.aggregatedEmissions_kg = SumKg(printed.details)
    /\ printed.aggregated_kWh = SumKWh(printed.details)
    /\ printed.flights_LDN_JFK =
         MathFloor(NumDivInt(printed.aggregatedEmissions_kg, 590))

\* a condensed report of two packages whose total is worth two flights, the
\* first package alone being worth one
C9_Witness ==
  /\ printed.kind = "condensed"
  /\ Len(printed.details) = 2
  /\ printed.flights_LDN_JFK = FromInt(2)
  /\ MathFloor(NumDivInt(printed.details[1].emissions_kg, 590)) = FromInt(1)

\* C10: a record carries an error property exactly when one of the package's
\* two lookups rejected.
C10_ErrorIffALookupRejected ==
  \A i \in Pkgs :
    Ran(i) => (Record(i).error.k = "set" <=> StatFailed(i) \/ DetailsFailed(i))

\* a record with an error for a failed download-stat lookup alone, next to a
\* record without error
C10_Witness ==
  \E i, j \in Pkgs :
    /\ Ran(i) /\ Ran(j)
    /\ StatFailed(i) /\ ~DetailsFailed(i) /\ Record(i).error.k = "set"
    /\ ~StatFailed(j) /\ ~DetailsFailed(j) /\ Record(j).error.k = "absent"

====
